---- MODULE Spec2Model ----
(***************************************************************************)
(* Model of the email checklist application (src/main.py): the seed        *)
(* parser, the sqlite table "emails", and the window's handlers.           *)
(*                                                                         *)
(* Text is a sequence of one-character strings, so that strip(), the       *)
(* splitting into lines and the regular expression are computed.           *)
(* A column that may hold NULL is a record [isNull, text].                 *)
(***************************************************************************)
EXTENDS Integers, Sequences, FiniteSets, TLC

\* ------------------------------------------------------------------ bounds
\* Highest id the AUTOINCREMENT counter may hand out in a checked run.
MaxId == 3
\* Longest seed document (in lines) the parser is checked on.
MaxLines == 3

\* ------------------------------------------------------------ text helpers
\* Whitespace: what str.strip() removes and what \s / \S tell apart.
IsSpace(c) == c \in {" ", "\t", "\n"}

RECURSIVE lstrip(_)
lstrip(s) == IF s # <<>> /\ IsSpace(Head(s)) THEN lstrip(Tail(s)) ELSE s

RECURSIVE rstrip(_)
rstrip(s) ==
    IF s # <<>> /\ IsSpace(s[Len(s)]) THEN rstrip(SubSeq(s, 1, Len(s) - 1)) ELSE s

\* str.strip()
strip(s) == rstrip(lstrip(s))

\* Python truthiness of a str.
Truthy(s) == s # <<>>

\* A nullable TEXT column / an Optional[str].
None == [isNull |-> TRUE, text |-> <<>>]
Text(s) == [isNull |-> FALSE, text |-> s]

\* `s or None`
OrNone(s) == IF Truthy(s) THEN Text(s) ELSE None

\* `v or ""`
OrEmpty(v) == IF v.isNull \/ ~Truthy(v.text) THEN <<>> ELSE v.text

\* str.splitlines() for text whose only line boundary is "\n": the pieces
\* between boundaries, without a trailing empty piece.
RECURSIVE splitlines(_)
splitlines(s) ==
    IF s = <<>> THEN <<>>
    ELSE LET nl == {i \in 1..Len(s) : s[i] = "\n"}
         IN  IF nl = {} THEN <<s>>
             ELSE LET i == CHOOSE j \in nl : \A k \in nl : j <= k
                  IN  <<SubSeq(s, 1, i - 1)>> \o splitlines(SubSeq(s, i + 1, Len(s)))

\* Number of leading characters of s that satisfy \s (resp. \S).
RECURSIVE SpaceRun(_)
SpaceRun(s) == IF s # <<>> /\ IsSpace(Head(s)) THEN 1 + SpaceRun(Tail(s)) ELSE 0

RECURSIVE WordRun(_)
WordRun(s) == IF s # <<>> /\ ~IsSpace(Head(s)) THEN 1 + WordRun(Tail(s)) ELSE 0

RECURSIVE NotCloseRun(_)
NotCloseRun(s) == IF s # <<>> /\ Head(s) # ")" THEN 1 + NotCloseRun(Tail(s)) ELSE 0

Drop(s, n) == SubSeq(s, n + 1, Len(s))
Take(s, n) == SubSeq(s, 1, n)

\* ------------------------------------------------------------- constants
STATUSES == <<"unused", "using", "used", "leftover">>
STATUS_SORT == <<"using", "unused", "leftover", "used">>

InStatuses(s) == \E i \in 1..Len(STATUSES) : STATUSES[i] = s

\* CASE status WHEN '<STATUS_SORT[i]>' THEN i-1 ... ELSE len(STATUS_SORT) END
STATUS_SORT_CLAUSE(status) ==
    IF \E i \in 1..Len(STATUS_SORT) : STATUS_SORT[i] = status
    THEN (CHOOSE i \in 1..Len(STATUS_SORT) : STATUS_SORT[i] = status) - 1
    ELSE Len(STATUS_SORT)

SeedMarkers == {"x", "o", "-", " "}

\* SEED_STATUS.get(state, "unused")
SEED_STATUS(state) ==
    CASE state = "x" -> "used"
      [] state = "o" -> "using"
      [] state = "-" -> "leftover"
      [] state = " " -> "unused"
      [] OTHER -> "unused"

\* ------------------------------------------------------------ seed parser
\* The optional tail  (?:\s+\((?P<number>[^)]+)\))?$  applied to what
\* follows the email.  \S+ has taken a maximal run, so the tail is empty or
\* starts with whitespace; every quantifier is followed by a character its
\* class excludes, so the greedy choice is the only one that can match.
MatchTail(t) ==
    IF t = <<>> THEN [ok |-> TRUE, number |-> None]
    ELSE LET ws == SpaceRun(t)
             u  == Drop(t, ws)
         IN  IF ws = 0 \/ u = <<>> \/ Head(u) # "("
             THEN [ok |-> FALSE, number |-> None]
             ELSE LET v == Tail(u)
                      n == NotCloseRun(v)
                  IN  IF n >= 1 /\ Len(v) = n + 1
                      THEN [ok |-> TRUE, number |-> Text(Take(v, n))]
                      ELSE [ok |-> FALSE, number |-> None]

\* pattern.match(line):
\*   ^\* \[(?P<state>[xo\- ])\]\s+(?P<email>\S+)(?:\s+\((?P<number>[^)]+)\))?$
NoMatch == [ok |-> FALSE, state |-> "", email |-> <<>>, number |-> None]

pattern_match(line) ==
    IF Len(line) < 5 \/ Take(line, 3) # <<"*", " ", "[">>
       \/ line[4] \notin SeedMarkers \/ line[5] # "]"
    THEN NoMatch
    ELSE LET r  == Drop(line, 5)
             ws == SpaceRun(r)
             e  == Drop(r, ws)
             w  == WordRun(e)
             t  == MatchTail(Drop(e, w))
         IN  IF ws = 0 \/ w = 0 \/ ~t.ok THEN NoMatch
             ELSE [ok |-> TRUE, state |-> line[4], email |-> Take(e, w),
                   number |-> t.number]

\* ParseLine without the `if not match: continue`: a line that is not a
\* checklist item yields a row too.  C7 must tell this from ParseLine.
ParseLineMissingContinue(rows, raw) ==
    LET line  == strip(raw)
        match == pattern_match(line)
    IN  IF ~Truthy(line) THEN rows
        ELSE Append(rows, <<strip(match.email), SEED_STATUS(match.state),
                            strip(OrEmpty(match.number))>>)

\* The body of the for loop of parse_seed for one line: the rows after it.
ParseLine(rows, raw) ==
    LET line  == strip(raw)
        match == pattern_match(line)
    IN  IF ~Truthy(line) THEN rows
        ELSE IF ~match.ok THEN rows
        ELSE Append(rows, <<strip(match.email), SEED_STATUS(match.state),
                            strip(OrEmpty(match.number))>>)

RECURSIVE ParseLines(_, _)
ParseLines(rows, lines) ==
    IF lines = <<>> THEN rows
    ELSE ParseLines(ParseLine(rows, Head(lines)), Tail(lines))

\* parse_seed(), with SEED_TEXT as its argument.
parse_seed(text) == ParseLines(<<>>, splitlines(text))

\* ------------------------------------------------------------ the store
\* The table "emails": a set of rows [id, email, status, number], with
\* email UNIQUE, and sqlite_sequence (seq), the last id AUTOINCREMENT gave.
Emails(rows) == {r.email : r \in rows}
Ids(rows) == {r.id : r \in rows}

\* INSERT INTO emails (email, status, number) VALUES (?, ?, ?) on a
\* connection whose view of the table is db = [rows, seq].  A violated
\* UNIQUE constraint raises IntegrityError and the statement changes nothing.
InsertOverwriting(db, email, status, number) ==
    \* INSERT OR REPLACE: what C1 must tell from Insert.
    [ok   |-> TRUE,
     rows |-> {r \in db.rows : r.email # email}
              \cup {[id |-> db.seq + 1, email |-> email, status |-> status,
                     number |-> number]},
     seq  |-> db.seq + 1]

Insert(db, email, status, number) ==
    IF email \in Emails(db.rows)
    THEN [ok |-> FALSE, rows |-> db.rows, seq |-> db.seq]
    ELSE [ok   |-> TRUE,
          rows |-> db.rows \cup {[id |-> db.seq + 1, email |-> email,
                                  status |-> status, number |-> number]},
          seq  |-> db.seq + 1]

\* conn.executemany(INSERT ..., seed_rows): the rows in order, stopping at
\* the first IntegrityError.  A parsed number is a str, never None.
RECURSIVE executemany(_, _)
executemany(db, seed_rows) ==
    IF seed_rows = <<>> THEN [ok |-> TRUE, rows |-> db.rows, seq |-> db.seq]
    ELSE LET r   == Head(seed_rows)
             ins == Insert(db, r[1], r[2], Text(r[3]))
         IN  IF ~ins.ok THEN ins
             ELSE executemany([rows |-> ins.rows, seq |-> ins.seq], Tail(seed_rows))

\* UPDATE emails SET status = ? WHERE id = ?
SetStatus(rows, id, status) ==
    {IF r.id = id THEN [r EXCEPT !.status = status] ELSE r : r \in rows}

\* UPDATE emails SET number = ? WHERE id = ?
SetNumber(rows, id, number) ==
    {IF r.id = id THEN [r EXCEPT !.number = number] ELSE r : r \in rows}

\* DELETE FROM emails WHERE id = ?
DeleteById(rows, id) == {r \in rows : r.id # id}

\* SELECT id, email, status, number FROM emails
\*   ORDER BY <STATUS_SORT_CLAUSE>, id
OrderedBefore(a, b) ==
    \/ STATUS_SORT_CLAUSE(a.status) < STATUS_SORT_CLAUSE(b.status)
    \/ /\ STATUS_SORT_CLAUSE(a.status) = STATUS_SORT_CLAUSE(b.status)
       /\ a.id < b.id

\* ORDER BY id alone: what C2 must tell from SelectOrdered.
RECURSIVE SelectOrderedById(_)
SelectOrderedById(rows) ==
    IF rows = {} THEN <<>>
    ELSE LET m == CHOOSE x \in rows : \A y \in rows : x.id <= y.id
         IN  <<m>> \o SelectOrderedById(rows \ {m})

\* cursor.fetchall() of the SELECT above.
RECURSIVE SelectOrdered(_)
SelectOrdered(rows) ==
    IF rows = {} THEN <<>>
    ELSE LET m == CHOOSE x \in rows : \A y \in rows \ {x} : OrderedBefore(x, y)
         IN  <<m>> \o SelectOrdered(rows \ {m})

\* ----------------------------------------------------------- the window
\* A controller context is [loading, rows, table, trace]: the _loading flag,
\* the connection's view of the table "emails", the QTableWidget (one record
\* [id, email, status] per displayed row: the id held as UserRole data by
\* the row's items and bound into its status callback, the email label, the
\* combo box's current text), and the slots run so far by the handler in
\* progress, each with the flag it saw and whether it wrote.  The text of a
\* number cell is read only from the item a signal carries, so it is part of
\* the item and not of the table.
NoId == 0

Slot(signal, column, ctx, wrote) ==
    [signal |-> signal, column |-> column, loading |-> ctx.loading, wrote |-> wrote]

\* _row_id_for_row(row)
row_id_for_row(table, row) ==
    IF row \in 1..Len(table) THEN table[row].id ELSE NoId

\* _update_status(row_id, status), the slot of a row's currentTextChanged.
update_status(ctx, row_id, status) ==
    IF ctx.loading
    THEN [ctx EXCEPT !.trace = Append(@, Slot("currentTextChanged", 1, ctx, FALSE))]
    ELSE IF ~InStatuses(status)
    THEN [ctx EXCEPT !.trace = Append(@, Slot("currentTextChanged", 1, ctx, FALSE))]
    ELSE [ctx EXCEPT !.rows = SetStatus(@, row_id, status),
                     !.trace = Append(@, Slot("currentTextChanged", 1, ctx, TRUE))]

\* _on_item_changed without its `if self._loading: return`: what C8 must
\* tell from on_item_changed.
on_item_changed_unguarded(ctx, item) ==
    IF item.column # 2
    THEN [ctx EXCEPT !.trace = Append(@, Slot("itemChanged", item.column, ctx, FALSE))]
    ELSE LET row_id == IF item.data = NoId
                       THEN row_id_for_row(ctx.table, item.row) ELSE item.data
         IN  IF row_id = NoId
             THEN [ctx EXCEPT !.trace = Append(@, Slot("itemChanged", 2, ctx, FALSE))]
             ELSE [ctx EXCEPT !.rows = SetNumber(@, row_id, OrNone(strip(item.text))),
                              !.trace = Append(@, Slot("itemChanged", 2, ctx, TRUE))]

\* _on_item_changed(item), the slot of the table's itemChanged; an item is
\* [row, column, data, text].
on_item_changed(ctx, item) ==
    IF ctx.loading
    THEN [ctx EXCEPT !.trace = Append(@, Slot("itemChanged", item.column, ctx, FALSE))]
    ELSE IF item.column # 2
    THEN [ctx EXCEPT !.trace = Append(@, Slot("itemChanged", item.column, ctx, FALSE))]
    ELSE LET row_id == IF item.data = NoId
                       THEN row_id_for_row(ctx.table, item.row) ELSE item.data
         IN  IF row_id = NoId
             THEN [ctx EXCEPT !.trace = Append(@, Slot("itemChanged", 2, ctx, FALSE))]
             ELSE [ctx EXCEPT !.rows = SetNumber(@, row_id, OrNone(strip(item.text))),
                              !.trace = Append(@, Slot("itemChanged", 2, ctx, TRUE))]

\* The combo box text _load_rows presets for a stored status.
PresetStatus(status) == IF InStatuses(status) THEN status ELSE "unused"

\* One iteration of the for loop of _load_rows.  table.setItem emits
\* itemChanged, which runs _on_item_changed before setItem returns; the
\* status box is preset before its signal is connected, so presetting it
\* runs no slot.
PopulateRow(ctx, entry) ==
    LET row_index == Len(ctx.table) + 1
        shown == [id |-> entry.id, email |-> entry.email,
                  status |-> PresetStatus(entry.status)]
        c1 == [ctx EXCEPT !.table = Append(@, shown)]
        c2 == on_item_changed(c1, [row |-> row_index, column |-> 0,
                                   data |-> entry.id, text |-> entry.email])
    IN  on_item_changed(c2, [row |-> row_index, column |-> 2,
                             data |-> entry.id, text |-> OrEmpty(entry.number)])

RECURSIVE PopulateRows(_, _)
PopulateRows(ctx, fetched) ==
    IF fetched = <<>> THEN ctx
    ELSE PopulateRows(PopulateRow(ctx, Head(fetched)), Tail(fetched))

\* Variants of _load_rows that C2, C9 and C10 must tell from load_rows: one
\* that lists by id alone, one that writes the preset status back to the
\* table emails, one without setRowCount(0).
load_rows_unordered(ctx) ==
    LET c0 == [ctx EXCEPT !.loading = TRUE, !.table = <<>>]
        c1 == PopulateRows(c0, SelectOrderedById(c0.rows))
    IN  [c1 EXCEPT !.loading = FALSE]

load_rows_rewriting(ctx) ==
    LET c0 == [ctx EXCEPT !.loading = TRUE, !.table = <<>>,
                          !.rows = {[r EXCEPT !.status = PresetStatus(@)] : r \in @}]
        c1 == PopulateRows(c0, SelectOrdered(c0.rows))
    IN  [c1 EXCEPT !.loading = FALSE]

load_rows_not_clearing(ctx) ==
    LET c0 == [ctx EXCEPT !.loading = TRUE]
        c1 == PopulateRows(c0, SelectOrdered(c0.rows))
    IN  [c1 EXCEPT !.loading = FALSE]

\* _load_rows()
load_rows(ctx) ==
    LET c0 == [ctx EXCEPT !.loading = TRUE, !.table = <<>>]
        c1 == PopulateRows(c0, SelectOrdered(c0.rows))
    IN  [c1 EXCEPT !.loading = FALSE]

\* The loop of _delete_selected with the row position taken for the id:
\* what C4 must tell from DeleteRows.
RECURSIVE DeleteRowsByPosition(_, _, _)
DeleteRowsByPosition(rows, table, selected) ==
    IF selected = {} THEN rows
    ELSE LET row == CHOOSE r \in selected : \A q \in selected : q <= r
         IN  DeleteRowsByPosition(DeleteById(rows, row), table, selected \ {row})

\* for row in sorted(rows, reverse=True): DELETE ... WHERE id = row's id
RECURSIVE DeleteRows(_, _, _)
DeleteRows(rows, table, selected) ==
    IF selected = {} THEN rows
    ELSE LET row    == CHOOSE r \in selected : \A q \in selected : q <= r
             row_id == row_id_for_row(table, row)
         IN  DeleteRows(IF row_id = NoId THEN rows ELSE DeleteById(rows, row_id),
                        table, selected \ {row})

\* ------------------------------------------------------------------ inputs
\* Lines a seed document is built from.
Item(state, email, rest) == <<"*", " ", "[", state, "]", " ">> \o email \o rest

LnUsedNumbered == Item("x", <<"a">>, <<" ", "(", "7", ")">>)
LnUsing == Item("o", <<"b">>, <<>>)
LnUnused == Item(" ", <<"c">>, <<>>)
LnLeftoverPadded == <<" ", " ">> \o Item("-", <<"a">>, <<"\t">>)
LnBlank == <<>>
LnSpaces == <<" ", "\t">>
LnProse == <<"n", "o", "t", " ", "a">>
LnBadMarker == Item("?", <<"a">>, <<>>)
LnBlankNumber == Item("x", <<"b">>, <<" ", "(", " ", ")">>)
LnGlued == Item("o", <<"a", "(", "7", ")">>, <<>>)
LnOpenParen == Item("x", <<"a">>, <<" ", "(", "7">>)
LnNoSpace == <<"*", " ", "[", "x", "]", "a">>

SeedLines ==
    {LnUsedNumbered, LnUsing, LnUnused, LnLeftoverPadded, LnBlank, LnSpaces,
     LnProse, LnBadMarker, LnBlankNumber, LnGlued, LnOpenParen, LnNoSpace}

\* The text of a document with the given lines.
RECURSIVE JoinLines(_)
JoinLines(lines) ==
    IF lines = <<>> THEN <<>>
    ELSE IF Len(lines) = 1 THEN Head(lines)
    ELSE Head(lines) \o <<"\n">> \o JoinLines(Tail(lines))

LineLists == UNION {[1..n -> SeedLines] : n \in 0..MaxLines}

\* base.txt as the application finds it.
DocEmpty == <<>>
DocPlain == JoinLines(<<LnUsedNumbered, LnBlank, LnProse, LnUsing>>) \o <<"\n">>
DocRepeated == JoinLines(<<LnUsedNumbered, LnLeftoverPadded>>)
DocOne == JoinLines(<<LnBadMarker, LnUsing>>)

\* emails.db as the first startup finds it: no file, or a file another tool
\* wrote, with a status the application does not know.  Documents, file and
\* form share the addresses a and b, so that duplicates are common.
LegacyRows ==
    {[id |-> 1, email |-> <<"a">>, status |-> "archived", number |-> None]}
NoFile == [rows |-> {}, seq |-> 0]
LegacyFile == [rows |-> LegacyRows, seq |-> 1]

\* The installations checked: base.txt and emails.db before the first run.
Installations ==
    {<<DocEmpty, NoFile>>, <<DocPlain, NoFile>>, <<DocRepeated, NoFile>>,
     <<DocOne, NoFile>>, <<DocOne, LegacyFile>>}

\* What the user types into the form and into a number cell.
FormInputs ==
    {[email |-> <<" ">>, number |-> <<" ", "7">>],
     [email |-> <<" ", "a", " ">>, number |-> <<" ">>],
     [email |-> <<"b">>, number |-> <<" ", "7">>]}
NumberInputs == {<<" ">>, <<" ", "7">>}
StatusChoices == {STATUSES[i] : i \in 1..Len(STATUSES)}

\* ------------------------------------------------------------------- state
VARIABLES
    seedText,      \* SEED_TEXT
    store,         \* committed rows of the table emails
    seq,           \* sqlite_sequence of emails
    running,       \* the window exists
    loading,       \* _loading
    table,         \* self.table
    email_input,   \* self.email_input
    number_input,  \* self.number_input
    seed_rows,     \* what parse_seed() last returned
    trace,         \* slots run inside the last _load_rows()
    outcome,       \* the warning or exception the last handler ended with, or "ok"
    seeded,        \* some startup has bulk-inserted the seed rows
    stale,         \* a status was changed since the last _load_rows()
    fresh          \* the first startup found no database file

vars == <<seedText, store, seq, running, loading, table, email_input,
          number_input, seed_rows, trace, outcome, seeded, stale, fresh>>

Ctx == [loading |-> loading, rows |-> store, table |-> table, trace |-> <<>>]

Init ==
    /\ \E inst \in Installations :
          /\ seedText = inst[1]
          /\ store = inst[2].rows
          /\ seq = inst[2].seq
          /\ fresh = (inst[2].rows = {})
    /\ running = FALSE
    /\ loading = FALSE
    /\ table = <<>>
    /\ email_input = <<>>
    /\ number_input = <<>>
    /\ seed_rows = <<>>
    /\ trace = <<>>
    /\ outcome = "ok"
    /\ seeded = FALSE
    /\ stale = FALSE

\* _ensure_seed_data() on the connection's view db: the view afterwards,
\* whether executemany ran to its end (ok), whether rows were inserted, and
\* what parse_seed returned (parsed; <<>> when it was not called).
ensure_seed_data(db, text) ==
    IF Cardinality(db.rows) # 0
    THEN [ok |-> TRUE, rows |-> db.rows, seq |-> db.seq, inserted |-> FALSE,
          parsed |-> <<>>]
    ELSE LET rows == parse_seed(text)
         IN  IF rows = <<>>
             THEN [ok |-> TRUE, rows |-> db.rows, seq |-> db.seq,
                   inserted |-> FALSE, parsed |-> rows]
             ELSE LET bulk == executemany(db, rows)
                  IN  [ok |-> bulk.ok, rows |-> bulk.rows, seq |-> bulk.seq,
                       inserted |-> bulk.ok, parsed |-> rows]

\* main(): EmailChecklistApp() = connect, _init_db, _ensure_seed_data,
\* _build_ui, _load_rows.  An IntegrityError from executemany leaves
\* __init__ before any commit: the process ends and the open transaction is
\* rolled back.
Startup ==
    /\ ~running
    /\ LET seed == ensure_seed_data([rows |-> store, seq |-> seq], seedText)
           ui   == load_rows([loading |-> FALSE, rows |-> seed.rows,
                              table |-> <<>>, trace |-> <<>>])
       IN  /\ seed.seq <= MaxId
           /\ seed_rows' = IF Cardinality(store) = 0 THEN seed.parsed ELSE seed_rows
           /\ IF seed.ok
              THEN /\ store' = ui.rows
                   /\ seq' = seed.seq
                   /\ seeded' = (seeded \/ seed.inserted)
                   /\ running' = TRUE
                   /\ loading' = ui.loading
                   /\ table' = ui.table
                   /\ trace' = ui.trace
                   /\ stale' = FALSE
                   /\ outcome' = "ok"
              ELSE /\ outcome' = "IntegrityError"
                   /\ UNCHANGED <<store, seq, seeded, running, loading, table,
                                  trace, stale>>
    /\ email_input' = <<>>
    /\ number_input' = <<>>
    /\ UNCHANGED <<seedText, fresh>>

\* _add_email(), with e and n the texts of the email and number inputs and
\* s the current text of the status input when Add is clicked.
AddEmail(e, n, s) ==
    /\ running
    /\ LET email  == strip(e)
           number == OrNone(strip(n))
           ins    == Insert([rows |-> store, seq |-> seq], email, s, number)
           ui     == load_rows([Ctx EXCEPT !.rows = ins.rows])
       IN  IF ~Truthy(email)
           THEN /\ outcome' = "Missing Email"
                /\ email_input' = e
                /\ number_input' = n
                /\ UNCHANGED <<store, seq, loading, table, trace, stale>>
           ELSE IF ~ins.ok
           THEN /\ outcome' = "Duplicate Email"
                /\ email_input' = e
                /\ number_input' = n
                /\ UNCHANGED <<store, seq, loading, table, trace, stale>>
           ELSE /\ ins.seq <= MaxId
                /\ seq' = ins.seq
                /\ outcome' = "ok"
                /\ email_input' = <<>>
                /\ number_input' = <<>>
                /\ store' = ui.rows
                /\ loading' = ui.loading
                /\ table' = ui.table
                /\ trace' = ui.trace
                /\ stale' = FALSE
    /\ UNCHANGED <<seedText, running, seed_rows, seeded, fresh>>

\* _delete_selected(), with selected the rows of the selected items and
\* confirm the answer to the question box.
DeleteSelected(selected, confirm) ==
    /\ running
    /\ selected \subseteq 1..Len(table)
    /\ UNCHANGED <<seedText, seq, running, email_input, number_input,
                   seed_rows, seeded, fresh>>
    /\ IF selected = {}
       THEN /\ outcome' = "ok"
            /\ UNCHANGED <<store, loading, table, trace, stale>>
       ELSE IF ~confirm
       THEN /\ outcome' = "ok"
            /\ UNCHANGED <<store, loading, table, trace, stale>>
       ELSE LET ui == load_rows([Ctx EXCEPT !.rows = DeleteRows(store, table, selected)])
            IN  /\ outcome' = "ok"
                /\ stale' = FALSE
                /\ store' = ui.rows
                /\ loading' = ui.loading
                /\ table' = ui.table
                /\ trace' = ui.trace

\* The user picks status in the combo box of a displayed row: its
\* currentTextChanged runs _update_status with the id bound at load time.
StatusChange(row, status) ==
    /\ running
    /\ row \in 1..Len(table)
    /\ status # table[row].status
    /\ LET shown == [table EXCEPT ![row].status = status]
           c == update_status([Ctx EXCEPT !.table = shown], table[row].id, status)
       IN  /\ table' = shown
           /\ store' = c.rows
           /\ stale' = TRUE
           /\ outcome' = "ok"
    /\ UNCHANGED <<seedText, seq, running, loading, email_input, number_input,
                   seed_rows, trace, seeded, fresh>>

\* The user commits text in the number cell of a displayed row: itemChanged
\* runs _on_item_changed with that item.
NumberEdit(row, text) ==
    /\ running
    /\ row \in 1..Len(table)
    /\ LET c == on_item_changed(Ctx, [row |-> row, column |-> 2,
                                      data |-> table[row].id, text |-> text])
       IN  /\ store' = c.rows
           /\ outcome' = "ok"
    /\ UNCHANGED <<seedText, seq, running, loading, table, email_input,
                   number_input, seed_rows, trace, seeded, stale, fresh>>

\* closeEvent(): the connection is closed and the window goes away.
CloseEvent ==
    /\ running
    /\ running' = FALSE
    /\ table' = <<>>
    /\ email_input' = <<>>
    /\ number_input' = <<>>
    /\ trace' = <<>>
    /\ stale' = FALSE
    /\ outcome' = "ok"
    /\ UNCHANGED <<seedText, store, seq, loading, seed_rows, seeded, fresh>>

Next ==
    \/ Startup
    \/ \E f \in FormInputs, s \in StatusChoices : AddEmail(f.email, f.number, s)
    \/ \E selected \in SUBSET (1..MaxId), confirm \in BOOLEAN :
          DeleteSelected(selected, confirm)
    \/ \E row \in 1..MaxId, status \in StatusChoices : StatusChange(row, status)
    \/ \E row \in 1..MaxId, text \in NumberInputs : NumberEdit(row, text)
    \/ CloseEvent

Spec == Init /\ [][Next]_vars

\* ------------------------------------------------- the parser on its own
\* parse_seed() applied to every document of at most MaxLines lines.
InitParse ==
    /\ \E lines \in LineLists : seedText = JoinLines(lines)
    /\ store = {}
    /\ seq = 0
    /\ fresh = TRUE
    /\ running = FALSE
    /\ loading = FALSE
    /\ table = <<>>
    /\ email_input = <<>>
    /\ number_input = <<>>
    /\ seed_rows = <<>>
    /\ trace = <<>>
    /\ outcome = "ok"
    /\ seeded = FALSE
    /\ stale = FALSE

ParseSeed ==
    /\ seed_rows' = parse_seed(seedText)
    /\ UNCHANGED <<seedText, store, seq, running, loading, table, email_input,
                   number_input, trace, outcome, seeded, stale, fresh>>

NextParse == ParseSeed

SpecParse == InitParse /\ [][NextParse]_vars

\* ------------------------------------------------------------------ claims
\* The entry of rows with the given id.
EntryOf(rows, id) == CHOOSE r \in rows : r.id = id

TableIds(t) == {t[i].id : i \in 1..Len(t)}

\* A step of Add with the given form.
AddStep(f) == \E s \in StatusChoices : AddEmail(f.email, f.number, s)

\* C1: an Add whose trimmed email is the email of an existing entry ends
\* with the Duplicate Email warning and changes nothing: the table emails
\* and its id counter, the displayed rows (no reload) and the two inputs,
\* which keep the text the user typed.
C1_DuplicateAddChangesNothing ==
    [][\A f \in FormInputs :
          (strip(f.email) \in Emails(store) /\ AddStep(f))
          => /\ outcome' = "Duplicate Email"
             /\ store' = store
             /\ seq' = seq
             /\ table' = table
             /\ trace' = trace
             /\ email_input' = f.email
             /\ number_input' = f.number]_vars

\* C1 witness: a duplicate Add has just been refused, its email still typed.
C1_Witness ==
    /\ running
    /\ outcome = "Duplicate Email"
    /\ strip(email_input) \in Emails(store)
    /\ email_input # strip(email_input)

\* The rank the ordering policy gives a status.
PolicyRank(status) ==
    CASE status = "using" -> 0
      [] status = "unused" -> 1
      [] status = "leftover" -> 2
      [] status = "used" -> 3
      [] OTHER -> 4

\* The displayed rows are the entries of rows, each once, by policy rank of
\* the stored status and then by id.
DisplayedInOrder(t, rows) ==
    /\ TableIds(t) = Ids(rows)
    /\ Len(t) = Cardinality(rows)
    /\ \A i, j \in 1..Len(t) :
          i < j =>
             LET a == EntryOf(rows, t[i].id)
                 b == EntryOf(rows, t[j].id)
             IN  \/ PolicyRank(a.status) < PolicyRank(b.status)
                 \/ /\ PolicyRank(a.status) = PolicyRank(b.status)
                    /\ a.id < b.id

\* C2: unless a status was changed since the last full reload, the
\* displayed rows are in the order of the status rank using < unused <
\* leftover < used < unrecognized, then id, of the stored statuses: every
\* full reload (at startup, after an Add, after a Delete) orders the rows by
\* the statuses stored at that time, whatever was changed before it.
C2_ReloadOrdersByStoredStatus ==
    (running /\ ~stale) => DisplayedInOrder(table, store)

\* C2 witness: two displayed rows in policy order that is not id order.
C2_Witness ==
    /\ running
    /\ ~stale
    /\ Len(table) >= 2
    /\ table[1].id > table[2].id
    /\ DisplayedInOrder(table, store)

\* C3: started without a database file, no stored entry has the empty
\* string as its number: every write path (seed bulk insert, Add, Number
\* edit) stores an empty or whitespace-only number as absent.
C3_NoEmptyNumberStored ==
    fresh => \A r \in store : r.number.isNull \/ strip(r.number.text) # <<>>

\* The entries bound to the selected view rows.
SelectedIds(t, selected) == {t[i].id : i \in selected \cap (1..Len(t))}

\* C4: a confirmed Delete of a non-empty selection removes exactly the
\* entries whose ids are bound to the selected rows and leaves every other
\* entry as it was; with nothing selected, or when declined, the table
\* emails is unchanged.
C4_DeleteRemovesExactlySelected ==
    [][\A selected \in SUBSET (1..Len(table)), confirm \in BOOLEAN :
          (/\ store' #
                 IF selected # {} /\ confirm
                 THEN {r \in store : r.id \notin SelectedIds(table, selected)}
                 ELSE store)
          => ~DeleteSelected(selected, confirm)]_vars

\* C4 witness: an entry has been deleted (its id was handed out and is
\* gone) while another entry is still stored and displayed.
C4_Witness ==
    /\ running
    /\ store # {}
    /\ TableIds(table) = Ids(store)
    /\ \E id \in 1..seq : id \notin Ids(store)

\* C5: once a startup has seeded the table, entries are created by Add only:
\* no later startup, and no other handler, adds an id to the table emails.
C5_SeedAtMostOnce ==
    [][seeded => \/ Ids(store') \subseteq Ids(store)
                 \/ \E f \in FormInputs : AddStep(f)]_vars

\* The row of the first occurrence of each email of the parsed rows, as an
\* entry without its id.
FirstOccurrences(parsed) ==
    {[email |-> parsed[i][1], status |-> parsed[i][2], number |-> parsed[i][3]] :
        i \in {k \in 1..Len(parsed) : \A j \in 1..(k - 1) : parsed[j][1] # parsed[k][1]}}

HasRepeatedEmail(parsed) ==
    \E i, j \in 1..Len(parsed) : i < j /\ parsed[i][1] = parsed[j][1]

\* C6: a startup on an empty table whose seed document repeats an email
\* completes, and the table then holds one entry per distinct email with
\* the status and number of its first occurrence.
C6_RepeatedSeedEmailKeepsFirst ==
    [][(~running /\ store = {} /\ HasRepeatedEmail(parse_seed(seedText)) /\ Startup)
       => /\ running'
          /\ {[email |-> r.email, status |-> r.status, number |-> OrEmpty(r.number)] :
                 r \in store'} = FirstOccurrences(parse_seed(seedText))]_vars

\* Whether a line of a document is a checklist item of the grammar.
Recognized(raw) == Truthy(strip(raw)) /\ pattern_match(strip(raw)).ok

RECURSIVE KeepRecognized(_)
KeepRecognized(lines) ==
    IF lines = <<>> THEN <<>>
    ELSE IF Recognized(Head(lines))
    THEN <<Head(lines)>> \o KeepRecognized(Tail(lines))
    ELSE KeepRecognized(Tail(lines))

\* The status a marker stands for.
MarkerStatus(marker) ==
    CASE marker = "x" -> "used"
      [] marker = "o" -> "using"
      [] marker = "-" -> "leftover"
      [] marker = " " -> "unused"

\* C7: parsing a document gives what parsing it without its blank and
\* unrecognized lines gives: one row per recognized line, in document
\* order, with the status its marker stands for.
C7_ParserSkipsUnrecognizedLines ==
    [][ParseSeed =>
          LET kept == KeepRecognized(splitlines(seedText))
          IN  /\ seed_rows' = parse_seed(JoinLines(kept))
              /\ Len(seed_rows') = Len(kept)
              /\ \A i \in 1..Len(kept) :
                    seed_rows'[i][2] = MarkerStatus(strip(kept[i])[4])]_vars

\* C7 witness: a parsed document with a blank line, an unrecognized line
\* and two recognized lines whose rows came out in document order.
C7_Witness ==
    LET lines == splitlines(seedText)
    IN  /\ Len(seed_rows) = 2
        /\ Len(lines) = MaxLines
        /\ \E i \in 1..Len(lines) : ~Recognized(lines[i])
        /\ seed_rows[1][2] # seed_rows[2][2]

\* C8: no slot run while _loading was set wrote to the table emails, and the
\* flag is clear again whenever a handler has returned.
C8_NoWriteWhileLoading ==
    /\ \A i \in 1..Len(trace) : trace[i].loading => ~trace[i].wrote
    /\ ~loading

\* C8 witness: the last reload ran the number-cell slot of a displayed row
\* with the flag set, and the slot was ignored.
C8_Witness ==
    /\ running
    /\ table # <<>>
    /\ \E i \in 1..Len(trace) :
          trace[i].column = 2 /\ trace[i].loading /\ ~trace[i].wrote

\* C9: started without a database file, every stored status is one of
\* unused, using, used, leftover; every displayed status is the stored one,
\* or unused for a stored status outside the four; and a startup that only
\* reloads (the table is not empty) leaves the table emails as it is.
C9_StatusesStayInEnumeration ==
    /\ [](fresh => \A r \in store : r.status \in {"unused", "using", "used", "leftover"})
    /\ [](running =>
            \A i \in 1..Len(table) :
               \E r \in store :
                  /\ r.id = table[i].id
                  /\ table[i].status =
                        IF r.status \in {"unused", "using", "used", "leftover"}
                        THEN r.status ELSE "unused")
    /\ [][(~running /\ store # {} /\ Startup) => store' = store]_vars

\* C9 witness: an entry with a status outside the four is displayed as
\* unused and still stored with its status.
C9_Witness ==
    /\ running
    /\ \E i \in 1..Len(table) :
          /\ table[i].status = "unused"
          /\ \E r \in store : r.id = table[i].id /\ r.status = "archived"

\* C10: while the window is up, the ids bound to the displayed rows are the
\* ids of the stored entries, each bound to one row.
C10_ViewBindsStoredIds ==
    running => /\ TableIds(table) = Ids(store)
               /\ Len(table) = Cardinality(store)

\* C10 witness: after a status change without a reload the rows are out of
\* policy order and still bind the stored ids.
C10_Witness ==
    /\ running
    /\ stale
    /\ Len(table) >= 2
    /\ ~DisplayedInOrder(table, store)
    /\ TableIds(table) = Ids(store)

====
